---- MODULE Spec2Model ----
(***************************************************************************)
(* Labeling-function builders of LabelingFunctionGeneratorUtils.py.        *)
(*                                                                         *)
(* A behaviour fixes one configuration (the **kwargs of the builders), one *)
(* parsed document and one answer table of the external fuzzy scorer, then *)
(* calls the six builders and the six labeling functions they return in    *)
(* any order.  Strings whose characters matter (document text, keywords,   *)
(* entity texts, gazetteer entries) are sequences of one-character         *)
(* strings; names and entity tags are compared whole and stay atomic.      *)
(***************************************************************************)
EXTENDS Integers, Sequences, FiniteSets, TLC

VARIABLES
    kwargs,   \* the configuration handed to the builders: key -> value
    doc,      \* the document: [text, ents, sentiment]
    ratio,    \* answers of fuzz.token_sort_ratio, per pair of lowercased strings
    lfs,      \* builder -> the labeling function it returned
    raised,   \* builder -> the exception its call raised
    labels,   \* builder -> the value its labeling function returned on doc
    scan      \* the entity loop of the last fuzzy-match call: where it returned, what it scored

vars == <<kwargs, doc, ratio, lfs, raised, labels, scan>>

\* ------------------------------------------------------------------ bounds
MaxTextLen == 4
MaxKeywords == 2
MaxEnts == 2

\* --------------------------------------------------------------- constants
ABSTAIN == -1

\* ------------------------------------------------------------------ strings
UpperCase == <<"A","B","C","D","E","F","G","H","I","J","K","L","M",
               "N","O","P","Q","R","S","T","U","V","W","X","Y","Z">>
LowerCase == <<"a","b","c","d","e","f","g","h","i","j","k","l","m",
               "n","o","p","q","r","s","t","u","v","w","x","y","z">>
Digits == {"0","1","2","3","4","5","6","7","8","9"}

Range(s) == {s[i] : i \in DOMAIN s}

SeqsUpTo(S, n) == UNION {[1..k -> S] : k \in 0..n}

Max(S) == CHOOSE m \in S : \A x \in S : x <= m

Min(S) == CHOOSE m \in S : \A x \in S : m <= x

\* str.lower() on one character, then on a string
ToLower(ch) ==
    IF \E i \in DOMAIN UpperCase : UpperCase[i] = ch
    THEN LowerCase[CHOOSE i \in DOMAIN UpperCase : UpperCase[i] = ch]
    ELSE ch

lower(s) == [i \in DOMAIN s |-> ToLower(s[i])]

\* ------------------------------------------------------------------- regex
\* The pattern the keyword builders hand to re.search: the class, the keyword
\* as given, the class.  One element per pattern atom.
NonAlnumClass == "[^a-z0-9]"

Pattern(each_keyword) == <<NonAlnumClass>> \o each_keyword \o <<NonAlnumClass>>

\* One atom of a pattern against one character: the class [^a-z0-9], the
\* regex wildcard '.', or a literal character.
AtomMatches(atom, ch) ==
    IF atom = NonAlnumClass THEN ch \notin (Range(LowerCase) \cup Digits)
    ELSE IF atom = "." THEN ch # "\n"
    ELSE atom = ch

\* re.search(pattern, string): a match starting anywhere in the string
re_search(pattern, string) ==
    \E start \in 0..(Len(string) - Len(pattern)) :
        \A j \in DOMAIN pattern : AtomMatches(pattern[j], string[start + j])

\* ------------------------------------------------------ external collaborators
\* TextBlob(text).sentiment: the scorer's polarity and subjectivity for the
\* document, carried by the document (scores in halves: 2 stands for 1.0).
TextBlob(InputSpacyDoc) == InputSpacyDoc.sentiment

\* fuzz.token_sort_ratio(a, b): the scorer's answer for the pair
token_sort_ratio(a, b) == ratio[<<a, b>>]

\* ----------------------------------------------------------- building blocks
\* kwargs.get(key, default): a default stands in for an absent key
GetItemOrDefault(kw, key) ==
    [raised |-> FALSE,
     value |-> IF key \in DOMAIN kw THEN kw[key]
               ELSE IF key = "ListOfKeywords" THEN <<>>
               ELSE IF key \in {"LabelingFunctionName", "NERTag"} THEN "None"
               ELSE 0]

\* kwargs[key]: the value, or KeyError when the key is absent
GetItem(kw, key) ==
    IF key \in DOMAIN kw
    THEN [raised |-> FALSE, value |-> kw[key]]
    ELSE [raised |-> TRUE]

\* @labeling_function(name = ...) around an inner function: the object is
\* registered under the name given; f is the inner function, closure its
\* free variables.
NameIgnored(name, f, closure) ==
    [name |-> f, f |-> f, closure |-> closure]

labeling_function(name, f, closure) ==
    [name |-> name, f |-> f, closure |-> closure]

\* lf.__name__ = name
SetName(lf, name) == ("__name__" :> name) @@ lf

\* each_ent.label_ == NERTag
AnyTag(each_ent, NERTag) == TRUE

TagMatches(each_ent, NERTag) == each_ent.label_ = NERTag

\* max_ratio >= FuzzyMatchThreshold
StrictlyAbove(max_ratio, FuzzyMatchThreshold) == max_ratio > FuzzyMatchThreshold

ThresholdReached(max_ratio, FuzzyMatchThreshold) == max_ratio >= FuzzyMatchThreshold

\* ------------------------------------------------- the labeling functions
\* Each takes the closure of its builder call and the document.

RECURSIVE NERPresenceLoop(_, _, _)
NERPresenceLoop(c, ents, i) ==
    IF i > Len(ents) THEN ABSTAIN
    ELSE IF TagMatches(ents[i], c.NERTag) THEN c.ReturnLabel
    ELSE NERPresenceLoop(c, ents, i + 1)

\* the 'return ABSTAIN' indented into the loop: only the first entity is looked at
CheckFirstEntityOnly(c, InputSpacyDoc) ==
    IF Len(InputSpacyDoc.ents) > 0 /\ TagMatches(InputSpacyDoc.ents[1], c.NERTag)
    THEN c.ReturnLabel
    ELSE ABSTAIN

CheckNERTagPresence(c, InputSpacyDoc) == NERPresenceLoop(c, InputSpacyDoc.ents, 1)

RECURSIVE NERAbsenceLoop(_, _, _)
NERAbsenceLoop(c, ents, i) ==
    IF i > Len(ents) THEN c.ReturnLabel
    ELSE IF TagMatches(ents[i], c.NERTag) THEN ABSTAIN
    ELSE NERAbsenceLoop(c, ents, i + 1)

\* the absence function looking at the last entity only
CheckLastEntityOnly(c, InputSpacyDoc) ==
    IF Len(InputSpacyDoc.ents) > 0
       /\ TagMatches(InputSpacyDoc.ents[Len(InputSpacyDoc.ents)], c.NERTag)
    THEN ABSTAIN
    ELSE c.ReturnLabel

CheckNERTagAbsence(c, InputSpacyDoc) == NERAbsenceLoop(c, InputSpacyDoc.ents, 1)

\* the lower polarity bound made inclusive
SentimentInclusiveLower(c, InputSpacyDoc) ==
    LET scores == TextBlob(InputSpacyDoc)
        polarity == scores.polarity
        subjectivity == scores.subjectivity
    IN  IF /\ polarity < c.PolarityUpper
           /\ polarity >= c.PolarityLower
           /\ subjectivity < c.SubjectivityUpper
           /\ subjectivity > c.SubjectivityLower
        THEN c.ReturnLabel
        ELSE ABSTAIN

TextBlobSentimentChecker(c, InputSpacyDoc) ==
    LET scores == TextBlob(InputSpacyDoc)
        polarity == scores.polarity
        subjectivity == scores.subjectivity
    IN  IF /\ polarity < c.PolarityUpper
           /\ polarity > c.PolarityLower
           /\ subjectivity < c.SubjectivityUpper
           /\ subjectivity > c.SubjectivityLower
        THEN c.ReturnLabel
        ELSE ABSTAIN

RECURSIVE KeywordPresenceLoop(_, _, _)
KeywordPresenceLoop(c, text, k) ==
    IF k > Len(c.ListOfKeywords) THEN ABSTAIN
    ELSE IF re_search(Pattern(c.ListOfKeywords[k]), lower(text)) THEN c.ReturnLabel
    ELSE KeywordPresenceLoop(c, text, k + 1)

CheckForKeywordExactMatch(c, InputSpacyDoc) ==
    KeywordPresenceLoop(c, InputSpacyDoc.text, 1)

RECURSIVE KeywordAbsenceLoop(_, _, _)
KeywordAbsenceLoop(c, text, k) ==
    IF k > Len(c.ListOfKeywords) THEN c.ReturnLabel
    ELSE IF re_search(Pattern(c.ListOfKeywords[k]), lower(text)) THEN ABSTAIN
    ELSE KeywordAbsenceLoop(c, text, k + 1)

\* the absence function searching the text as given, not lowercased
KeywordAbsenceNoLower(c, InputSpacyDoc) ==
    IF \E k \in DOMAIN c.ListOfKeywords :
           re_search(Pattern(c.ListOfKeywords[k]), InputSpacyDoc.text)
    THEN ABSTAIN
    ELSE c.ReturnLabel

CheckForKeywordAbsenceExactMatch(c, InputSpacyDoc) ==
    KeywordAbsenceLoop(c, InputSpacyDoc.text, 1)

\* for each_name in list(set(ListOfKeywords)): keep the larger ratio
RECURSIVE GazetteerLoop(_, _, _)
GazetteerLoop(NamedEntityInDoc, names, max_ratio) ==
    IF names = {} THEN max_ratio
    ELSE LET each_name == CHOOSE n \in names : TRUE
             fuxzzRatio == token_sort_ratio(lower(NamedEntityInDoc), lower(each_name))
         IN  GazetteerLoop(NamedEntityInDoc, names \ {each_name},
                           IF fuxzzRatio > max_ratio THEN fuxzzRatio ELSE max_ratio)

\* for each_ent in InputSpacyDoc.ents, max_ratio carried from entity to entity.
\* The result keeps the label returned, the index of the entity at which the
\* function returned (0: the loop ran out) and the entities it scored.
RECURSIVE EntityLoop(_, _, _, _, _)
EntityLoop(c, ents, i, max_ratio, scored) ==
    IF i > Len(ents) THEN [label |-> ABSTAIN, at |-> 0, scored |-> scored]
    ELSE IF TagMatches(ents[i], c.NERTag)
    THEN LET new_max == GazetteerLoop(ents[i].text, Range(c.ListOfKeywords), max_ratio)
         IN  IF ThresholdReached(new_max, c.FuzzyMatchThreshold)
             THEN [label |-> c.ReturnLabel, at |-> i, scored |-> scored \cup {i}]
             ELSE EntityLoop(c, ents, i + 1, new_max, scored \cup {i})
    ELSE EntityLoop(c, ents, i + 1, max_ratio, scored)

\* the last line returning ReturnLabel, as the absence functions do
FuzzyMatchReturnsLabelAtEnd(c, InputSpacyDoc) ==
    LET r == EntityLoop(c, InputSpacyDoc.ents, 1, 0, {})
    IN  [r EXCEPT !.label = c.ReturnLabel]

CheckForNamedEntityFuzzyMatch(c, InputSpacyDoc) ==
    EntityLoop(c, InputSpacyDoc.ents, 1, 0, {})

\* ------------------------------------------------------------- the builders
Builders == {"NERTagPresence", "NERTagAbsence", "SentimentChecker",
             "KeywordPresenceExactMatch", "NamedEntityFuzzyMatch",
             "KeywordAbsenceExactMatch"}

\* a kwargs[...] of the builder raised KeyError: nothing is returned
Raise(builder) ==
    /\ raised' = (builder :> "KeyError") @@ raised
    /\ UNCHANGED <<kwargs, doc, ratio, lfs, labels, scan>>

\* the builder returned the labeling function
Return(builder, lf) ==
    /\ lfs' = (builder :> lf) @@ lfs
    /\ UNCHANGED <<kwargs, doc, ratio, raised, labels, scan>>

NERTagPresence ==
    LET LabelingFunctionName == GetItem(kwargs, "LabelingFunctionName")
        NERTag == GetItem(kwargs, "NERTag")
        ReturnLabel == GetItem(kwargs, "ReturnLabel")
    IN  IF LabelingFunctionName.raised \/ NERTag.raised \/ ReturnLabel.raised
        THEN Raise("NERTagPresence")
        ELSE Return("NERTagPresence",
                 SetName(labeling_function(LabelingFunctionName.value,
                             "CheckNERTagPresence",
                             [NERTag |-> NERTag.value,
                              ReturnLabel |-> ReturnLabel.value]),
                         LabelingFunctionName.value))

NERTagAbsence ==
    LET LabelingFunctionName == GetItem(kwargs, "LabelingFunctionName")
        NERTag == GetItem(kwargs, "NERTag")
        ReturnLabel == GetItem(kwargs, "ReturnLabel")
    IN  IF LabelingFunctionName.raised \/ NERTag.raised \/ ReturnLabel.raised
        THEN Raise("NERTagAbsence")
        ELSE Return("NERTagAbsence",
                 SetName(labeling_function(LabelingFunctionName.value,
                             "CheckNERTagAbsence",
                             [NERTag |-> NERTag.value,
                              ReturnLabel |-> ReturnLabel.value]),
                         LabelingFunctionName.value))

SentimentChecker ==
    LET LabelingFunctionName == GetItem(kwargs, "LabelingFunctionName")
        SubjectivityLower == GetItem(kwargs, "SubjectivityLower")
        SubjectivityUpper == GetItem(kwargs, "SubjectivityUpper")
        PolarityLower == GetItem(kwargs, "PolarityLower")
        PolarityUpper == GetItem(kwargs, "PolarityUpper")
        ReturnLabel == GetItem(kwargs, "ReturnLabel")
    IN  IF \/ LabelingFunctionName.raised
           \/ SubjectivityLower.raised \/ SubjectivityUpper.raised
           \/ PolarityLower.raised \/ PolarityUpper.raised
           \/ ReturnLabel.raised
        THEN Raise("SentimentChecker")
        ELSE Return("SentimentChecker",
                 SetName(labeling_function(LabelingFunctionName.value,
                             "TextBlobSentimentChecker",
                             [SubjectivityLower |-> SubjectivityLower.value,
                              SubjectivityUpper |-> SubjectivityUpper.value,
                              PolarityLower |-> PolarityLower.value,
                              PolarityUpper |-> PolarityUpper.value,
                              ReturnLabel |-> ReturnLabel.value]),
                         LabelingFunctionName.value))

KeywordPresenceExactMatch ==
    LET LabelingFunctionName == GetItem(kwargs, "LabelingFunctionName")
        ListOfKeywords == GetItem(kwargs, "ListOfKeywords")
        ReturnLabel == GetItem(kwargs, "ReturnLabel")
    IN  IF LabelingFunctionName.raised \/ ListOfKeywords.raised \/ ReturnLabel.raised
        THEN Raise("KeywordPresenceExactMatch")
        ELSE Return("KeywordPresenceExactMatch",
                 SetName(labeling_function(LabelingFunctionName.value,
                             "CheckForKeywordExactMatch",
                             [ListOfKeywords |-> ListOfKeywords.value,
                              ReturnLabel |-> ReturnLabel.value]),
                         LabelingFunctionName.value))

NamedEntityFuzzyMatch ==
    LET LabelingFunctionName == GetItem(kwargs, "LabelingFunctionName")
        ListOfKeywords == GetItem(kwargs, "ListOfKeywords")
        ReturnLabel == GetItem(kwargs, "ReturnLabel")
        FuzzyMatchThreshold == GetItem(kwargs, "FuzzyMatchThreshold")
        NERTag == GetItem(kwargs, "NERTag")
    IN  IF \/ LabelingFunctionName.raised \/ ListOfKeywords.raised
           \/ ReturnLabel.raised \/ FuzzyMatchThreshold.raised \/ NERTag.raised
        THEN Raise("NamedEntityFuzzyMatch")
        ELSE Return("NamedEntityFuzzyMatch",
                 SetName(labeling_function(LabelingFunctionName.value,
                             "CheckForNamedEntityFuzzyMatch",
                             [ListOfKeywords |-> ListOfKeywords.value,
                              ReturnLabel |-> ReturnLabel.value,
                              FuzzyMatchThreshold |-> FuzzyMatchThreshold.value,
                              NERTag |-> NERTag.value]),
                         LabelingFunctionName.value))

KeywordAbsenceExactMatch ==
    LET LabelingFunctionName == GetItem(kwargs, "LabelingFunctionName")
        ListOfKeywords == GetItem(kwargs, "ListOfKeywords")
        ReturnLabel == GetItem(kwargs, "ReturnLabel")
    IN  IF LabelingFunctionName.raised \/ ListOfKeywords.raised \/ ReturnLabel.raised
        THEN Raise("KeywordAbsenceExactMatch")
        ELSE Return("KeywordAbsenceExactMatch",
                 SetName(labeling_function(LabelingFunctionName.value,
                             "CheckForKeywordAbsenceExactMatch",
                             [ListOfKeywords |-> ListOfKeywords.value,
                              ReturnLabel |-> ReturnLabel.value]),
                         LabelingFunctionName.value))

\* ------------------------------------- calling a returned labeling function
\* The function a builder returned is called on the document; the value it
\* returns is kept under the builder's name.
Labelled(builder, value) ==
    /\ labels' = (builder :> value) @@ labels
    /\ UNCHANGED <<kwargs, doc, ratio, lfs, raised>>

CallCheckNERTagPresence ==
    /\ "NERTagPresence" \in DOMAIN lfs
    /\ Labelled("NERTagPresence",
                CheckNERTagPresence(lfs["NERTagPresence"].closure, doc))
    /\ UNCHANGED scan

CallCheckNERTagAbsence ==
    /\ "NERTagAbsence" \in DOMAIN lfs
    /\ Labelled("NERTagAbsence",
                CheckNERTagAbsence(lfs["NERTagAbsence"].closure, doc))
    /\ UNCHANGED scan

CallTextBlobSentimentChecker ==
    /\ "SentimentChecker" \in DOMAIN lfs
    /\ Labelled("SentimentChecker",
                TextBlobSentimentChecker(lfs["SentimentChecker"].closure, doc))
    /\ UNCHANGED scan

CallCheckForKeywordExactMatch ==
    /\ "KeywordPresenceExactMatch" \in DOMAIN lfs
    /\ Labelled("KeywordPresenceExactMatch",
                CheckForKeywordExactMatch(lfs["KeywordPresenceExactMatch"].closure, doc))
    /\ UNCHANGED scan

CallCheckForNamedEntityFuzzyMatch ==
    /\ "NamedEntityFuzzyMatch" \in DOMAIN lfs
    /\ LET r == CheckForNamedEntityFuzzyMatch(lfs["NamedEntityFuzzyMatch"].closure, doc)
       IN  /\ Labelled("NamedEntityFuzzyMatch", r.label)
           /\ scan' = [at |-> r.at, scored |-> r.scored]

CallCheckForKeywordAbsenceExactMatch ==
    /\ "KeywordAbsenceExactMatch" \in DOMAIN lfs
    /\ Labelled("KeywordAbsenceExactMatch",
                CheckForKeywordAbsenceExactMatch(lfs["KeywordAbsenceExactMatch"].closure, doc))
    /\ UNCHANGED scan

\* ------------------------------------------------------------ input pools
Names == {"LF_org", "LF_kw"}
Tags == {"ORG", "org", "PERSON"}
ClassLabels == {1, 2}

\* polarity in [-1.0, 1.0] and subjectivity in [0.0, 1.0], in halves
PolarityValues == {-2, -1, 0, 1, 2}
SubjectivityValues == {0, 1, 2}

\* document text and keywords, character by character
TextChars == {"a", "A", "b", " "}
Texts == SeqsUpTo(TextChars, MaxTextLen)
Keywords == {<<"a">>, <<".">>, <<"a", "b">>}
KeywordLists == SeqsUpTo(Keywords, MaxKeywords)

\* entity texts and gazetteer entries, and what the fuzzy scorer may answer
EntityTexts == {<<"A", "b">>, <<"c">>}
GazetteerNames == {<<"A", "b">>, <<"c">>}
Gazetteers == SeqsUpTo(GazetteerNames, MaxKeywords)
Ratios == {0, 50, 100}
Thresholds == {0, 50, 100, 101}
RatioTables ==
    [{lower(e) : e \in EntityTexts} \X {lower(g) : g \in GazetteerNames} -> Ratios]

Entities(texts, tags) == [text : texts, label_ : tags]

NoneBuilt == [b \in {} |-> b]

NoScan == [at |-> 0, scored |-> {}]

PlainDoc == [text |-> <<>>, ents |-> <<>>,
             sentiment |-> [polarity |-> 0, subjectivity |-> 0]]

PlainRatio == [p \in DOMAIN (CHOOSE t \in RatioTables : TRUE) |-> 0]

\* nothing built, nothing called
Fresh ==
    /\ lfs = NoneBuilt
    /\ raised = NoneBuilt
    /\ labels = NoneBuilt
    /\ scan = NoScan

\* ------------------------------------------- entity-tag presence / absence
InitNER ==
    /\ kwargs \in [LabelingFunctionName : {"LF_org"}, NERTag : Tags,
                   ReturnLabel : ClassLabels]
    /\ doc \in {[PlainDoc EXCEPT !.ents = e] :
                    e \in SeqsUpTo(Entities(EntityTexts, Tags), MaxEnts)}
    /\ ratio = PlainRatio
    /\ Fresh

NextNER ==
    \/ NERTagPresence
    \/ NERTagAbsence
    \/ CallCheckNERTagPresence
    \/ CallCheckNERTagAbsence

SpecNER == InitNER /\ [][NextNER]_vars

\* ------------------------------------------------------ sentiment checker
InitSentiment ==
    /\ kwargs \in [LabelingFunctionName : {"LF_org"}, ReturnLabel : ClassLabels,
                   SubjectivityLower : SubjectivityValues,
                   SubjectivityUpper : SubjectivityValues,
                   PolarityLower : PolarityValues,
                   PolarityUpper : PolarityValues]
    /\ doc \in {[PlainDoc EXCEPT !.sentiment = [polarity |-> p, subjectivity |-> s]] :
                    p \in PolarityValues, s \in SubjectivityValues}
    /\ ratio = PlainRatio
    /\ Fresh

NextSentiment ==
    \/ SentimentChecker
    \/ CallTextBlobSentimentChecker

SpecSentiment == InitSentiment /\ [][NextSentiment]_vars

\* ---------------------------------------------- keyword presence / absence
InitKeyword ==
    /\ kwargs \in [LabelingFunctionName : {"LF_kw"}, ListOfKeywords : KeywordLists,
                   ReturnLabel : {2}]
    /\ doc \in {[PlainDoc EXCEPT !.text = t] : t \in Texts}
    /\ ratio = PlainRatio
    /\ Fresh

NextKeyword ==
    \/ KeywordPresenceExactMatch
    \/ KeywordAbsenceExactMatch
    \/ CallCheckForKeywordExactMatch
    \/ CallCheckForKeywordAbsenceExactMatch

SpecKeyword == InitKeyword /\ [][NextKeyword]_vars

\* ------------------------------------------------------ fuzzy entity match
\* a pair the call never hands to the scorer: its answer is left at 0
Unread(p) ==
    \/ \A i \in DOMAIN doc.ents :
           doc.ents[i].label_ # kwargs.NERTag \/ lower(doc.ents[i].text) # p[1]
    \/ \A g \in Range(kwargs.ListOfKeywords) : lower(g) # p[2]

InitFuzzy ==
    /\ kwargs \in [LabelingFunctionName : {"LF_org"}, ListOfKeywords : Gazetteers,
                   ReturnLabel : {1}, FuzzyMatchThreshold : Thresholds,
                   NERTag : {"ORG"}]
    /\ doc \in {[PlainDoc EXCEPT !.ents = e] :
                    e \in SeqsUpTo(Entities(EntityTexts, {"ORG", "PERSON"}), MaxEnts)}
    /\ ratio \in {t \in RatioTables : \A p \in DOMAIN t : Unread(p) => t[p] = 0}
    /\ Fresh

NextFuzzy ==
    \/ NamedEntityFuzzyMatch
    \/ CallCheckForNamedEntityFuzzyMatch

SpecFuzzy == InitFuzzy /\ [][NextFuzzy]_vars

\* ---------------------------------------------------------- all builders
Keys == {"LabelingFunctionName", "ReturnLabel", "NERTag",
         "SubjectivityLower", "SubjectivityUpper", "PolarityLower", "PolarityUpper",
         "ListOfKeywords", "FuzzyMatchThreshold"}

FullConfigs ==
    [LabelingFunctionName : Names, ReturnLabel : {1}, NERTag : {"ORG"},
     SubjectivityLower : {0}, SubjectivityUpper : {2},
     PolarityLower : {-1}, PolarityUpper : {2},
     ListOfKeywords : {<< <<"c">> >>, << <<"A", "b">>, <<"c">> >>},
     FuzzyMatchThreshold : {50}]

Restrict(kw, keys) == [k \in keys |-> kw[k]]

\* every key present, any one key absent, or no key at all
Configs ==
    {Restrict(kw, keys) : kw \in FullConfigs,
                          keys \in {Keys} \cup {Keys \ {k} : k \in Keys} \cup {{}}}

SampleDocs ==
    {[text |-> <<" ", "c", " ">>,
      ents |-> << [text |-> <<"A", "b">>, label_ |-> "ORG"] >>,
      sentiment |-> [polarity |-> 1, subjectivity |-> 1]],
     [text |-> <<"a", "b">>,
      ents |-> << [text |-> <<"c">>, label_ |-> "PERSON"] >>,
      sentiment |-> [polarity |-> -1, subjectivity |-> 0]],
     PlainDoc}

Init ==
    /\ kwargs \in Configs
    /\ doc \in SampleDocs
    /\ ratio \in {t \in RatioTables : \A p \in DOMAIN t :
                      t[p] = IF p[1] = p[2] THEN 100 ELSE 0}
    /\ Fresh

Next ==
    \/ NERTagPresence
    \/ NERTagAbsence
    \/ SentimentChecker
    \/ KeywordPresenceExactMatch
    \/ NamedEntityFuzzyMatch
    \/ KeywordAbsenceExactMatch
    \/ CallCheckNERTagPresence
    \/ CallCheckNERTagAbsence
    \/ CallTextBlobSentimentChecker
    \/ CallCheckForKeywordExactMatch
    \/ CallCheckForNamedEntityFuzzyMatch
    \/ CallCheckForKeywordAbsenceExactMatch

Spec == Init /\ [][Next]_vars

\* ================================================================ claims
Built(b) == b \in DOMAIN lfs
Called(b) == b \in DOMAIN labels

\* the keys each builder's body subscripts kwargs with
RequiredKeys(b) ==
    CASE b \in {"NERTagPresence", "NERTagAbsence"} ->
             {"LabelingFunctionName", "NERTag", "ReturnLabel"}
      [] b = "SentimentChecker" ->
             {"LabelingFunctionName", "SubjectivityLower", "SubjectivityUpper",
              "PolarityLower", "PolarityUpper", "ReturnLabel"}
      [] b \in {"KeywordPresenceExactMatch", "KeywordAbsenceExactMatch"} ->
             {"LabelingFunctionName", "ListOfKeywords", "ReturnLabel"}
      [] b = "NamedEntityFuzzyMatch" ->
             {"LabelingFunctionName", "ListOfKeywords", "ReturnLabel",
              "FuzzyMatchThreshold", "NERTag"}

\* C1: whatever builder produced it and whatever the configuration, a
\* labeling function's registered name and its __name__ both equal the
\* configuration's LabelingFunctionName.
C1_NameIsConfigName ==
    \A b \in DOMAIN lfs :
        /\ lfs[b].name = kwargs.LabelingFunctionName
        /\ lfs[b]["__name__"] = kwargs.LabelingFunctionName

\* C1 witness: all six builders have returned a function, under the second name
C1_Witness ==
    /\ DOMAIN lfs = Builders
    /\ kwargs.LabelingFunctionName = "LF_kw"

\* C9: a builder called with a configuration lacking one of its keys raises
\* KeyError and returns nothing, so its function is never built nor called;
\* a function that was built closed over exactly the configuration's values
\* for every variable it reads (no default stands in for a missing key).
C9_MissingKeyFailsAtConstruction ==
    \A b \in Builders :
        /\ ~(RequiredKeys(b) \subseteq DOMAIN kwargs) => ~Built(b) /\ ~Called(b)
        /\ b \in DOMAIN raised =>
               /\ raised[b] = "KeyError"
               /\ ~(RequiredKeys(b) \subseteq DOMAIN kwargs)
        /\ Built(b) =>
               /\ b \notin DOMAIN raised
               /\ DOMAIN lfs[b].closure = RequiredKeys(b) \ {"LabelingFunctionName"}
               /\ \A k \in DOMAIN lfs[b].closure : lfs[b].closure[k] = kwargs[k]
        /\ Called(b) => Built(b)

\* C9 witness: NERTag is absent; the three builders that need it raised,
\* while a keyword function was built from the same configuration and called
C9_Witness ==
    /\ "NERTag" \notin DOMAIN kwargs
    /\ {"NERTagPresence", "NERTagAbsence", "NamedEntityFuzzyMatch"} \subseteq DOMAIN raised
    /\ Called("KeywordPresenceExactMatch")

\* some entity of the document carries exactly the configured tag
HasTag == \E i \in DOMAIN doc.ents : doc.ents[i].label_ = kwargs.NERTag

\* C2: the presence function returns ReturnLabel iff some entity's tag
\* equals NERTag exactly, and ABSTAIN otherwise (empty entity list included).
C2_PresenceIffTagged ==
    Called("NERTagPresence") =>
        /\ labels["NERTagPresence"] = kwargs.ReturnLabel <=> HasTag
        /\ ~HasTag => labels["NERTagPresence"] = ABSTAIN

\* C2 witness: NERTag "ORG", ReturnLabel 1; the first entity is tagged "org"
\* (another case), the second "ORG", and the function returned 1
C2_Witness ==
    /\ Called("NERTagPresence")
    /\ kwargs.NERTag = "ORG" /\ kwargs.ReturnLabel = 1
    /\ Len(doc.ents) = 2
    /\ doc.ents[1].label_ = "org" /\ doc.ents[2].label_ = "ORG"
    /\ labels["NERTagPresence"] = 1

\* C3: built from the same NERTag and ReturnLabel and called on the same
\* document, presence returns ReturnLabel iff absence returns ABSTAIN, and
\* presence returns ABSTAIN iff absence returns ReturnLabel.
C3_PresenceAbsenceComplement ==
    Called("NERTagPresence") /\ Called("NERTagAbsence") =>
        /\ labels["NERTagPresence"] = kwargs.ReturnLabel
               <=> labels["NERTagAbsence"] = ABSTAIN
        /\ labels["NERTagPresence"] = ABSTAIN
               <=> labels["NERTagAbsence"] = kwargs.ReturnLabel

\* C3 witness: both were called on a document whose first entity has the
\* tag and whose second has not
C3_Witness ==
    /\ Called("NERTagPresence") /\ Called("NERTagAbsence")
    /\ Len(doc.ents) = 2
    /\ doc.ents[1].label_ = kwargs.NERTag /\ doc.ents[2].label_ # kwargs.NERTag
    /\ labels["NERTagAbsence"] = ABSTAIN

\* the document's scores lie strictly inside both configured intervals
StrictlyInside ==
    /\ kwargs.PolarityLower < doc.sentiment.polarity
    /\ doc.sentiment.polarity < kwargs.PolarityUpper
    /\ kwargs.SubjectivityLower < doc.sentiment.subjectivity
    /\ doc.sentiment.subjectivity < kwargs.SubjectivityUpper

\* C6: the sentiment function returns ReturnLabel iff all four strict
\* inequalities hold; a score equal to any threshold abstains, and so does
\* every document when a lower threshold is not below its upper one.
C6_SentimentStrictBounds ==
    Called("SentimentChecker") =>
        /\ labels["SentimentChecker"] = kwargs.ReturnLabel <=> StrictlyInside
        /\ ~StrictlyInside => labels["SentimentChecker"] = ABSTAIN
        /\ \/ doc.sentiment.polarity \in {kwargs.PolarityLower, kwargs.PolarityUpper}
           \/ doc.sentiment.subjectivity
                  \in {kwargs.SubjectivityLower, kwargs.SubjectivityUpper}
           \/ kwargs.PolarityLower >= kwargs.PolarityUpper
           \/ kwargs.SubjectivityLower >= kwargs.SubjectivityUpper
           => labels["SentimentChecker"] = ABSTAIN

\* C6 witness: polarity sits exactly on PolarityLower, everything else is
\* strictly inside, and the function abstained
C6_Witness ==
    /\ Called("SentimentChecker")
    /\ doc.sentiment.polarity = kwargs.PolarityLower
    /\ doc.sentiment.polarity < kwargs.PolarityUpper
    /\ kwargs.SubjectivityLower < doc.sentiment.subjectivity
    /\ doc.sentiment.subjectivity < kwargs.SubjectivityUpper
    /\ labels["SentimentChecker"] = ABSTAIN

\* the keyword stands in s, character for character, with a character
\* outside [a-z0-9] right before it and right after it
OccursBounded(keyword, s) ==
    \E i \in 1..(Len(s) - Len(keyword) - 1) :
        /\ s[i] \notin (Range(LowerCase) \cup Digits)
        /\ SubSeq(s, i + 1, i + Len(keyword)) = keyword
        /\ s[i + Len(keyword) + 1] \notin (Range(LowerCase) \cup Digits)

\* C4: the keyword presence function returns ReturnLabel iff some keyword
\* occurs in the lowercased text with a character outside [a-z0-9] right
\* before and right after it, and ABSTAIN otherwise.
C4_KeywordOccursBounded ==
    Called("KeywordPresenceExactMatch") =>
        LET occurs == \E k \in DOMAIN kwargs.ListOfKeywords :
                          OccursBounded(kwargs.ListOfKeywords[k], lower(doc.text))
        IN  /\ labels["KeywordPresenceExactMatch"] = kwargs.ReturnLabel <=> occurs
            /\ ~occurs => labels["KeywordPresenceExactMatch"] = ABSTAIN

\* C5: built from the same ListOfKeywords and ReturnLabel and called on the
\* same document, keyword presence returns ReturnLabel iff keyword absence
\* returns ABSTAIN (the empty list included).
C5_KeywordPresenceAbsenceComplement ==
    Called("KeywordPresenceExactMatch") /\ Called("KeywordAbsenceExactMatch") =>
        (labels["KeywordPresenceExactMatch"] = kwargs.ReturnLabel
             <=> labels["KeywordAbsenceExactMatch"] = ABSTAIN)

\* C5 witness: the second of two keywords stands bounded in a text written
\* in upper case; presence returned the label and absence abstained
C5_Witness ==
    /\ Called("KeywordPresenceExactMatch") /\ Called("KeywordAbsenceExactMatch")
    /\ kwargs.ListOfKeywords = << <<"a", "b">>, <<"a">> >>
    /\ doc.text = <<" ", "A", " ">>
    /\ labels["KeywordPresenceExactMatch"] = kwargs.ReturnLabel
    /\ labels["KeywordAbsenceExactMatch"] = ABSTAIN

\* entity i carries the configured tag
Tagged(i) == doc.ents[i].label_ = kwargs.NERTag

\* the scorer's answers for entity i against each distinct gazetteer entry
OwnRatios(i) ==
    {ratio[<<lower(doc.ents[i].text), lower(g)>>] : g \in Range(kwargs.ListOfKeywords)}

\* C7: if an entity tagged NERTag has a text identical to a gazetteer entry
\* and the scorer answers 100 for the pair, the fuzzy function returns
\* ReturnLabel for every threshold up to 100, whatever else is present.
C7_IdenticalEntityMatches ==
    Called("NamedEntityFuzzyMatch") /\ kwargs.FuzzyMatchThreshold <= 100 =>
        ((\E i \in DOMAIN doc.ents : \E g \in Range(kwargs.ListOfKeywords) :
              /\ Tagged(i)
              /\ doc.ents[i].text = g
              /\ ratio[<<lower(doc.ents[i].text), lower(g)>>] = 100)
         => labels["NamedEntityFuzzyMatch"] = kwargs.ReturnLabel)

\* C7 witness: threshold 100; the first tagged entity scores below it, the
\* second is identical to a gazetteer entry and scores 100; the label came back
C7_Witness ==
    /\ Called("NamedEntityFuzzyMatch")
    /\ kwargs.FuzzyMatchThreshold = 100
    /\ Len(doc.ents) = 2 /\ Tagged(1) /\ Tagged(2)
    /\ OwnRatios(1) = {50}
    /\ doc.ents[2].text \in Range(kwargs.ListOfKeywords)
    /\ ratio[<<lower(doc.ents[2].text), lower(doc.ents[2].text)>>] = 100
    /\ labels["NamedEntityFuzzyMatch"] = kwargs.ReturnLabel

\* C8: with a threshold above 100 the fuzzy function abstains on every
\* document and gazetteer.
C8_UnreachableThresholdAbstains ==
    Called("NamedEntityFuzzyMatch") /\ kwargs.FuzzyMatchThreshold > 100 =>
        labels["NamedEntityFuzzyMatch"] = ABSTAIN

\* C8 witness: threshold 101, a tagged entity identical to a gazetteer entry
\* scoring 100, and the function abstained
C8_Witness ==
    /\ Called("NamedEntityFuzzyMatch")
    /\ kwargs.FuzzyMatchThreshold = 101
    /\ \E i \in DOMAIN doc.ents :
           /\ Tagged(i)
           /\ doc.ents[i].text \in Range(kwargs.ListOfKeywords)
           /\ 100 \in OwnRatios(i)
    /\ labels["NamedEntityFuzzyMatch"] = ABSTAIN

\* The fuzzy function returned ReturnLabel at the first entity of
\* `qualifying`, or abstained after the whole list when there is none, and
\* scored exactly the tagged entities up to where it returned.
FirstQualifyingDecides(qualifying) ==
    LET stop == IF qualifying = {} THEN Len(doc.ents) ELSE Min(qualifying)
    IN  /\ IF qualifying = {}
           THEN labels["NamedEntityFuzzyMatch"] = ABSTAIN /\ scan.at = 0
           ELSE labels["NamedEntityFuzzyMatch"] = kwargs.ReturnLabel /\ scan.at = stop
        /\ scan.scored = {i \in 1..stop : Tagged(i)}

====
